---- MODULE Spec2Model ----
(***************************************************************************)
(* FrontMatterDataSource of obsidian-projects: the Source Selector         *)
(* (includes), the Record Extractor (parseRecords), the Schema Detector    *)
(* (detectSchema) and the three queries (queryOne, queryAll, queryFiles).  *)
(*                                                                         *)
(* Strings are sequences of one-character strings, so that startsWith,     *)
(* slice, split and join are computed as JavaScript computes them.        *)
(***************************************************************************)
EXTENDS Naturals, Sequences, FiniteSets

VARIABLES
    project,        \* this.project: [path, recursive]
    markdownFiles,  \* app.vault.getMarkdownFiles(): sequence of TFile
    metadataCache,  \* app.metadataCache: TFile path -> CachedMetadata or null
    changes,        \* number of host changes so far (bounded by MaxChanges)
    call,           \* the query whose promise is resolved and not yet consumed
    frame,          \* the DataFrame that query returned
    incPath,        \* argument of the last includes(path) call
    incResult       \* [called, value]: what that call returned

vars == <<project, markdownFiles, metadataCache, changes, call, frame,
          incPath, incResult>>

----------------------------------------------------------------------------
(* Bounds *)

MaxRootLen == 3
MaxPathLen == 5
MaxChanges == 2

----------------------------------------------------------------------------
(* Strings *)

SLASH == "/"

SeqsUpTo(S, n) == UNION {[1..k -> S] : k \in 0..n}

\* String.prototype.startsWith
startsWith(s, prefix) ==
    /\ Len(prefix) <= Len(s)
    /\ SubSeq(s, 1, Len(prefix)) = prefix

\* String.prototype.slice(1)
slice1(s) == SubSeq(s, 2, Len(s))

\* String.prototype.split("/"): the segments between the slashes; a string
\* without a slash (the empty string too) is one segment.
RECURSIVE splitFrom(_, _, _)
splitFrom(s, i, cur) ==
    IF i > Len(s) THEN <<cur>>
    ELSE IF s[i] = SLASH THEN <<cur>> \o splitFrom(s, i + 1, <<>>)
    ELSE splitFrom(s, i + 1, Append(cur, s[i]))

split(s) == splitFrom(s, 1, <<>>)

\* Array.prototype.slice(0, -1)
dropLast(xs) == SubSeq(xs, 1, Len(xs) - 1)

\* Array.prototype.join("/")
RECURSIVE join(_)
join(xs) ==
    IF Len(xs) = 0 THEN <<>>
    ELSE IF Len(xs) = 1 THEN xs[1]
    ELSE xs[1] \o <<SLASH>> \o join(Tail(xs))

\* Array.prototype.filter((el) => el): the empty string is falsy
nonEmptyElements(xs) == SelectSeq(xs, LAMBDA el : el # <<>>)

----------------------------------------------------------------------------
(* Source Selector *)

trimmedPath_noStrip(root) == root

trimmedPath(root) ==
    IF startsWith(root, <<SLASH>>) THEN slice1(root) ELSE root

includes_noSlice(proj, path) ==
    IF ~startsWith(path, trimmedPath(proj.path)) THEN FALSE
    ELSE IF ~proj.recursive
    THEN join(split(path)) = join(nonEmptyElements(split(trimmedPath(proj.path))))
    ELSE TRUE

includes(proj, path) ==
    IF ~startsWith(path, trimmedPath(proj.path)) THEN FALSE
    ELSE IF ~proj.recursive
    THEN LET pathElements == dropLast(split(path))
             projectPathElements == nonEmptyElements(split(trimmedPath(proj.path)))
         IN  join(pathElements) = join(projectPathElements)
    ELSE TRUE

----------------------------------------------------------------------------
(* Front matter values.  Every value has the same shape [k, s, items]:     *)
(* k is the JavaScript kind, s the text of a scalar, items the elements    *)
(* of a list.                                                              *)

Undefined == [k |-> "undefined", s |-> <<>>, items |-> <<>>]
Null      == [k |-> "null", s |-> <<>>, items |-> <<>>]
Str(s)    == [k |-> "string", s |-> s, items |-> <<>>]
Num(s)    == [k |-> "number", s |-> s, items |-> <<>>]
DateOf(s) == [k |-> "date", s |-> s, items |-> <<>>]
Obj(s)    == [k |-> "object", s |-> s, items |-> <<>>]
List(xs)  == [k |-> "list", s |-> <<>>, items |-> xs]

sTodo  == <<"t", "o", "d", "o">>
sThree == <<"3">>
sDay   == <<"2", "0", "2", "2", "-", "0", "1", "-", "0", "5">>
sPos   == <<"{", "}">>

Digits == {"0", "1", "2", "3", "4", "5", "6", "7", "8", "9"}

\* TFile: path and basename (the file name without its extension)
TFile(path, basename) == [path |-> path, basename |-> basename]

FileA == TFile(<<"P", "/", "a">>, <<"a">>)
FileB == TFile(<<"P", "/", "S", "/", "b">>, <<"b">>)
FileC == TFile(<<"O", "/", "c">>, <<"c">>)

Vault == <<FileA, FileB, FileC>>

VaultFiles == {Vault[i] : i \in DOMAIN Vault}

VaultPaths == {f.path : f \in VaultFiles}

\* The keys a document's front matter is observed with, and the values the
\* host is observed to store under each.
MetaKeys == {"status", "path", "name", "position"}

MetaValues(key) ==
    IF key = "position" THEN {Undefined, Obj(sPos)}
    ELSE IF key \in {"path", "name"} THEN {Undefined, Str(<<>>), Str(sTodo)}
    ELSE {Undefined, Null, Str(<<>>), Str(sTodo), Str(sDay), Num(sThree),
          List(<<>>), List(<<Num(sThree)>>)}

EmptyFrontMatter == [key \in MetaKeys |-> Undefined]

\* CachedMetadata | null, and its optional frontmatter
NoCache       == [cached |-> FALSE, hasFrontMatter |-> FALSE,
                  frontmatter |-> EmptyFrontMatter]
NoFrontMatter == [cached |-> TRUE, hasFrontMatter |-> FALSE,
                  frontmatter |-> EmptyFrontMatter]
FrontMatter(fm) == [cached |-> TRUE, hasFrontMatter |-> TRUE, frontmatter |-> fm]

\* MetadataCache.getFileCache
getFileCache(cache, file) ==
    IF file.path \in DOMAIN cache THEN cache[file.path] ELSE NoCache

----------------------------------------------------------------------------
(* Helpers imported by the data source *)

\* notEmpty: null, undefined, the empty string and the empty list are empty
notEmpty(v) ==
    /\ v.k \notin {"undefined", "null"}
    /\ ~(v.k = "string" /\ v.s = <<>>)
    /\ ~(v.k = "list" /\ v.items = <<>>)

isDateString(s) ==
    /\ Len(s) = Len(sDay)
    /\ \A i \in 1..Len(s) :
          IF sDay[i] = "-" THEN s[i] = "-" ELSE s[i] \in Digits

isNumericString(s) ==
    /\ Len(s) > 0
    /\ \A i \in 1..Len(s) : s[i] \in Digits

\* standardizeRecord: the record's id is the document path; date strings
\* are stored as dates, every other value as it is.
standardizeValue(v) ==
    IF v.k = "string" /\ isDateString(v.s) THEN DateOf(v.s) ELSE v

standardizeRecord(id, values) ==
    [id |-> id,
     values |-> [key \in DOMAIN values |-> standardizeValue(values[key])]]

\* DataFieldType
String  == "string"
Number  == "number"
Boolean == "boolean"
Date    == "date"
Unknown == "unknown"

DataFieldTypes == {String, Number, Boolean, Date, Unknown}

\* Value Classifier, scalars: dates first, then booleans, numbers (and
\* numeric strings), then strings; anything else is unknown.
scalarType(v) ==
    IF v.k = "date" \/ (v.k = "string" /\ isDateString(v.s)) THEN Date
    ELSE IF v.k = "boolean" THEN Boolean
    ELSE IF v.k = "number" \/ (v.k = "string" /\ isNumericString(v.s)) THEN Number
    ELSE IF v.k = "string" THEN String
    ELSE Unknown

\* Value Classifier: a list has the type of its first non-empty element
typeFromValue(v) ==
    IF v.k = "list"
    THEN LET full == SelectSeq(v.items, notEmpty)
         IN  IF Len(full) = 0 THEN Unknown ELSE scalarType(full[1])
    ELSE scalarType(v)

\* The order the detected fields are listed in
KeyOrder == <<"status", "path", "name">>

observedKeys(records) ==
    UNION {DOMAIN records[i].values : i \in DOMAIN records}

\* How many records hold a value of type t under key
typeCount(records, key, t) ==
    Cardinality({i \in DOMAIN records :
                    /\ key \in DOMAIN records[i].values
                    /\ typeFromValue(records[i].values[key]) = t})

\* The most frequent of the types observed, the unknown ones left out;
\* String on a tie, Unknown when nothing but unknown values was seen.
consensusType(records, key) ==
    LET known == {t \in DataFieldTypes \ {Unknown} : typeCount(records, key, t) > 0}
        best  == {t \in known :
                    \A u \in known :
                       typeCount(records, key, u) <= typeCount(records, key, t)}
    IN  IF known = {} THEN Unknown
        ELSE IF Cardinality(best) = 1 THEN CHOOSE t \in best : TRUE
        ELSE String

detectField(records, key) ==
    [name |-> key,
     type |-> consensusType(records, key),
     repeated |-> \E i \in DOMAIN records :
                     /\ key \in DOMAIN records[i].values
                     /\ records[i].values[key].k = "list",
     identifier |-> FALSE,
     derived |-> FALSE]

\* detectFields: one field for every key observed in some record
detectFields(records) ==
    LET keys == SelectSeq(KeyOrder, LAMBDA key : key \in observedKeys(records))
    IN  [i \in DOMAIN keys |-> detectField(records, keys[i])]

\* The string a value that is no string is rendered as
RECURSIVE renderItems(_)
renderItems(xs) ==
    IF Len(xs) = 0 THEN <<>>
    ELSE IF Len(xs) = 1 THEN xs[1].s
    ELSE xs[1].s \o <<",">> \o renderItems(Tail(xs))

render(v) == IF v.k = "list" THEN renderItems(v.items) ELSE v.s

\* stringFallback: a value present under field and no string becomes its
\* rendering; an absent value stays absent.
stringFallback(records, field) ==
    [i \in DOMAIN records |->
        [records[i] EXCEPT !.values =
            [key \in DOMAIN records[i].values |->
                IF key = field /\ records[i].values[key].k # "string"
                THEN Str(render(records[i].values[key]))
                ELSE records[i].values[key]]]]

----------------------------------------------------------------------------
(* Record Extractor *)

\* const { position, ...values } = cache.frontmatter ?? {}
frontmatterValues(entry) ==
    [key \in MetaKeys \ {"position"} |->
        IF entry.hasFrontMatter THEN entry.frontmatter[key] ELSE Undefined]

filteredValues_noFilter(file, entry) ==
    LET values == frontmatterValues(entry)
        kept   == {key \in DOMAIN values : values[key].k # "undefined"}
    IN  [key \in kept \cup {"path", "name"} |->
            IF key = "path" THEN Str(file.path)
            ELSE IF key = "name" THEN Str(file.basename)
            ELSE values[key]]

filteredValues_userWins(file, entry) ==
    LET values == frontmatterValues(entry)
        kept   == {key \in DOMAIN values : notEmpty(values[key])}
    IN  [key \in kept \cup {"path", "name"} |->
            IF key \in kept THEN values[key]
            ELSE IF key = "path" THEN Str(file.path)
            ELSE Str(file.basename)]

\* The entries that are not empty, then path and name of the file
filteredValues(file, entry) ==
    LET values == frontmatterValues(entry)
        kept   == {key \in DOMAIN values : notEmpty(values[key])}
    IN  [key \in kept \cup {"path", "name"} |->
            IF key = "path" THEN Str(file.path)
            ELSE IF key = "name" THEN Str(file.basename)
            ELSE values[key]]

RECURSIVE parseRecords_noGuard(_, _)
parseRecords_noGuard(files, cache) ==
    IF Len(files) = 0 THEN <<>>
    ELSE LET file  == files[Len(files)]
             entry == getFileCache(cache, file)
         IN  Append(parseRecords_noGuard(dropLast(files), cache),
                    standardizeRecord(file.path, filteredValues(file, entry)))

RECURSIVE parseRecords_unshift(_, _)
parseRecords_unshift(files, cache) ==
    IF Len(files) = 0 THEN <<>>
    ELSE LET file  == files[Len(files)]
             entry == getFileCache(cache, file)
             rest  == parseRecords_unshift(dropLast(files), cache)
         IN  IF entry.cached
             THEN <<standardizeRecord(file.path, filteredValues(file, entry))>>
                    \o rest
             ELSE rest

\* for (let file of files) { if (cache) records.push(...) }
RECURSIVE parseRecords(_, _)
parseRecords(files, cache) ==
    IF Len(files) = 0 THEN <<>>
    ELSE LET file  == files[Len(files)]
             entry == getFileCache(cache, file)
             rest  == parseRecords(dropLast(files), cache)
         IN  IF entry.cached
             THEN Append(rest,
                         standardizeRecord(file.path, filteredValues(file, entry)))
             ELSE rest

----------------------------------------------------------------------------
(* Schema Detector *)

detectSchema_identifierOnName(records) ==
    LET fields == detectFields(records)
        first  == [i \in DOMAIN fields |->
                     IF fields[i].name = "name" \/ fields[i].name = "path"
                     THEN [fields[i] EXCEPT !.derived = TRUE]
                     ELSE fields[i]]
    IN  [i \in DOMAIN first |->
            IF first[i].name = "name"
            THEN [first[i] EXCEPT !.identifier = TRUE]
            ELSE first[i]]

detectSchema(records) ==
    LET fields == detectFields(records)
        first  == [i \in DOMAIN fields |->
                     IF fields[i].name = "name" \/ fields[i].name = "path"
                     THEN [fields[i] EXCEPT !.derived = TRUE]
                     ELSE fields[i]]
    IN  [i \in DOMAIN first |->
            IF first[i].name = "path"
            THEN [first[i] EXCEPT !.identifier = TRUE]
            ELSE first[i]]

----------------------------------------------------------------------------
(* Data Source *)

\* fields.filter(String).map(name).forEach(records = stringFallback(...))
RECURSIVE fallbackAll(_, _)
fallbackAll(records, names) ==
    IF Len(names) = 0 THEN records
    ELSE fallbackAll(stringFallback(records, names[1]), Tail(names))

stringFieldNames(fields) ==
    LET strings == SelectSeq(fields, LAMBDA field : field.type = String)
    IN  [i \in DOMAIN strings |-> strings[i].name]

queryFiles_noFallback(files, cache) ==
    LET records == parseRecords(files, cache)
    IN  [fields |-> detectSchema(records), records |-> records]

queryFiles(files, cache) ==
    LET records == parseRecords(files, cache)
        fields  == detectSchema(records)
    IN  [fields |-> fields,
         records |-> fallbackAll(records, stringFieldNames(fields))]

queryOne(file, cache) == queryFiles(<<file>>, cache)

queryAll_noFilter(proj, files, cache) == queryFiles(files, cache)

queryAll(proj, files, cache) ==
    queryFiles(SelectSeq(files, LAMBDA file : includes(proj, file.path)), cache)

----------------------------------------------------------------------------
(* The host and the queries *)

NoCall  == [op |-> "none", files |-> <<>>]
NoFrame == [fields |-> <<>>, records |-> <<>>]

\* The collections the data source is constructed for
Projects ==
    {[path |-> <<"P">>, recursive |-> FALSE],
     [path |-> <<"/", "P">>, recursive |-> TRUE],
     [path |-> <<>>, recursive |-> TRUE]}

\* The metadata the host holds when the data source is constructed
InitialCaches ==
    {[p \in VaultPaths |-> NoFrontMatter],
     [p \in VaultPaths |->
        IF p = FileC.path THEN NoFrontMatter
        ELSE FrontMatter([EmptyFrontMatter EXCEPT !["status"] = Num(sThree)])]}

\* The lists of documents queryFiles is called with
FileLists ==
    {<<>>, <<FileC, FileB, FileA>>, <<FileB, FileB>>, <<FileA, FileC>>}

Init ==
    /\ project \in Projects
    /\ markdownFiles = Vault
    /\ metadataCache \in InitialCaches
    /\ changes = 0
    /\ call = NoCall
    /\ frame = NoFrame
    /\ incPath = <<>>
    /\ incResult = [called |-> FALSE, value |-> FALSE]

\* The host runs between two queries, never inside one: a query has no
\* await in it, so its promise is resolved in the turn that called it.
HostStep ==
    /\ call = NoCall
    /\ changes < MaxChanges
    /\ changes' = changes + 1
    /\ UNCHANGED <<project, call, frame, incPath, incResult>>

\* The host parses a changed front matter key of a document
SetFrontMatterKey(path, key, value) ==
    /\ HostStep
    /\ \E i \in DOMAIN markdownFiles : markdownFiles[i].path = path
    /\ metadataCache[path].cached
    /\ metadataCache[path].frontmatter[key] # value
    /\ metadataCache' =
          [metadataCache EXCEPT ![path] =
              FrontMatter([metadataCache[path].frontmatter EXCEPT ![key] = value])]
    /\ UNCHANGED markdownFiles

\* The document's front matter block is deleted
RemoveFrontMatter(path) ==
    /\ HostStep
    /\ metadataCache[path].hasFrontMatter
    /\ metadataCache' = [metadataCache EXCEPT ![path] = NoFrontMatter]
    /\ UNCHANGED markdownFiles

\* The host has not indexed the document (again) yet: getFileCache is null
DropFileCache(path) ==
    /\ HostStep
    /\ \E i \in DOMAIN markdownFiles : markdownFiles[i].path = path
    /\ metadataCache[path].cached
    /\ metadataCache' = [metadataCache EXCEPT ![path] = NoCache]
    /\ UNCHANGED markdownFiles

\* The host indexes a document it had no metadata for
IndexFile(path) ==
    /\ HostStep
    /\ \E i \in DOMAIN markdownFiles : markdownFiles[i].path = path
    /\ ~metadataCache[path].cached
    /\ metadataCache' = [metadataCache EXCEPT ![path] = NoFrontMatter]
    /\ UNCHANGED markdownFiles

\* The document is deleted from the vault
DeleteFile(path) ==
    /\ HostStep
    /\ \E i \in DOMAIN markdownFiles : markdownFiles[i].path = path
    /\ markdownFiles' = SelectSeq(markdownFiles, LAMBDA file : file.path # path)
    /\ metadataCache' = [metadataCache EXCEPT ![path] = NoCache]

QueryOne(file) ==
    /\ call = NoCall
    /\ call' = [op |-> "queryOne", files |-> <<file>>]
    /\ frame' = queryOne(file, metadataCache)
    /\ UNCHANGED <<project, markdownFiles, metadataCache, changes, incPath, incResult>>

QueryAll_dropsPosition ==
    /\ call = NoCall
    /\ call' = [op |-> "queryAll", files |-> <<>>]
    /\ frame' = queryAll(project, markdownFiles, metadataCache)
    /\ metadataCache' =
          [p \in DOMAIN metadataCache |->
              [metadataCache[p] EXCEPT !.frontmatter["position"] = Undefined]]
    /\ UNCHANGED <<project, markdownFiles, changes, incPath, incResult>>

QueryAll ==
    /\ call = NoCall
    /\ call' = [op |-> "queryAll", files |-> <<>>]
    /\ frame' = queryAll(project, markdownFiles, metadataCache)
    /\ UNCHANGED <<project, markdownFiles, metadataCache, changes, incPath, incResult>>

QueryFiles(files) ==
    /\ call = NoCall
    /\ call' = [op |-> "queryFiles", files |-> files]
    /\ frame' = queryFiles(files, metadataCache)
    /\ UNCHANGED <<project, markdownFiles, metadataCache, changes, incPath, incResult>>

\* The caller takes the DataFrame of the resolved promise
Return ==
    /\ call # NoCall
    /\ call' = NoCall
    /\ frame' = NoFrame
    /\ UNCHANGED <<project, markdownFiles, metadataCache, changes, incPath, incResult>>

Next ==
    \/ \E path \in VaultPaths, key \in MetaKeys :
          \E value \in MetaValues(key) : SetFrontMatterKey(path, key, value)
    \/ \E path \in VaultPaths : RemoveFrontMatter(path)
    \/ \E path \in VaultPaths : DropFileCache(path)
    \/ \E path \in VaultPaths : IndexFile(path)
    \/ \E path \in VaultPaths : DeleteFile(path)
    \/ \E file \in VaultFiles : QueryOne(file)
    \/ QueryAll
    \/ \E files \in FileLists : QueryFiles(files)
    \/ Return

Spec == Init /\ [][Next]_vars

----------------------------------------------------------------------------
(* The Source Selector on its own: every root and every path of the bounds *)

Chars == {SLASH, "a", "b"}

sProjects     == <<"P", "r", "o", "j", "e", "c", "t", "s">>
sProjectsA    == sProjects \o <<"/", "a", ".", "m", "d">>
sProjectsSubB == sProjects \o <<"/", "S", "u", "b", "/", "b", ".", "m", "d">>
sOtherA       == <<"O", "t", "h", "e", "r", "/", "a", ".", "m", "d">>
sNote         == <<"N", "o", "t", "e">>
sNotesX       == <<"N", "o", "t", "e", "s", "/", "x", ".", "m", "d">>

Roots == SeqsUpTo(Chars, MaxRootLen) \cup {sProjects, sNote}

Paths == SeqsUpTo(Chars, MaxPathLen) \cup {sProjectsA, sProjectsSubB, sOtherA, sNotesX}

InitIncludes ==
    /\ project \in [path : Roots, recursive : BOOLEAN]
    /\ markdownFiles = Vault
    /\ metadataCache = [p \in VaultPaths |-> NoFrontMatter]
    /\ changes = 0
    /\ call = NoCall
    /\ frame = NoFrame
    /\ incPath = <<>>
    /\ incResult = [called |-> FALSE, value |-> FALSE]

Includes(path) ==
    /\ ~incResult.called
    /\ incPath' = path
    /\ incResult' = [called |-> TRUE, value |-> includes(project, path)]
    /\ UNCHANGED <<project, markdownFiles, metadataCache, changes, call, frame>>

\* The caller takes the answer
IncludesReturn ==
    /\ incResult.called
    /\ incPath' = <<>>
    /\ incResult' = [called |-> FALSE, value |-> FALSE]
    /\ UNCHANGED <<project, markdownFiles, metadataCache, changes, call, frame>>

NextIncludes ==
    \/ \E path \in Paths : Includes(path)
    \/ IncludesReturn

SpecIncludes == InitIncludes /\ [][NextIncludes]_vars

----------------------------------------------------------------------------
(* Source Selector: the statements checked *)

IsPrefix(p, s) ==
    /\ Len(p) <= Len(s)
    /\ \A i \in 1..Len(p) : s[i] = p[i]

\* The root without one leading "/"
StrippedRoot(root) ==
    IF Len(root) > 0 /\ root[1] = SLASH THEN Tail(root) ELSE root

\* The characters of s at the positions of idx, in their order
Pick(s, idx) ==
    [n \in 1..Cardinality(idx) |->
        s[CHOOSE i \in idx : Cardinality({j \in idx : j <= i}) = n]]

\* The root with its empty segments ignored: of every run of slashes only
\* the last one stays, and only between two segments.
RootSegments(root) ==
    Pick(root,
         {i \in 1..Len(root) :
             \/ root[i] # SLASH
             \/ /\ \E j \in 1..(i - 1) : root[j] # SLASH
                /\ i < Len(root)
                /\ root[i + 1] # SLASH})

\* The path with its final segment removed: what precedes its last slash
ContainingDirectory(path) ==
    LET slashes == {i \in 1..Len(path) : path[i] = SLASH}
    IN  IF slashes = {} THEN <<>>
        ELSE SubSeq(path, 1, (CHOOSE i \in slashes : \A j \in slashes : j <= i) - 1)

\* C1: with recursive = false, includes(path) is true exactly when the path
\* starts with the root (one leading "/" stripped) and the path's containing
\* directory equals the root with its empty segments ignored; for the root
\* "Projects", "Projects/a.md" is included and "Projects/Sub/b.md" and
\* "Other/a.md" are not.
C1_DirectChildrenOnly ==
    (incResult.called /\ ~project.recursive) =>
       /\ incResult.value =
             (/\ IsPrefix(StrippedRoot(project.path), incPath)
              /\ ContainingDirectory(incPath) = RootSegments(project.path))
       /\ project.path = sProjects =>
             /\ incPath = sProjectsA => incResult.value
             /\ incPath \in {sProjectsSubB, sOtherA} => ~incResult.value

C1_Witness ==
    /\ incResult.called
    /\ ~project.recursive
    /\ project.path = sProjects
    /\ incPath = sProjectsA
    /\ incResult.value

\* C10: with recursive = true, includes(path) is true exactly when the path
\* starts textually with the root after one leading "/" is stripped; in both
\* modes a path that does not start with the stripped root is rejected; the
\* root "Note" includes "Notes/x.md" when recursive and excludes it when not.
C10_TextualPrefix ==
    incResult.called =>
       /\ project.recursive =>
             incResult.value = IsPrefix(StrippedRoot(project.path), incPath)
       /\ ~IsPrefix(StrippedRoot(project.path), incPath) => ~incResult.value
       /\ (project.path = sNote /\ incPath = sNotesX) =>
             incResult.value = project.recursive

C10_Witness ==
    /\ incResult.called
    /\ project.recursive
    /\ project.path = sNote
    /\ incPath = sNotesX
    /\ incResult.value

----------------------------------------------------------------------------
(* Queries: the statements checked *)

\* A query has returned and its DataFrame is in frame
Returned == call.op # "none"

\* The documents the returned query ran its pipeline over
RequestedFiles ==
    IF call.op = "queryAll"
    THEN SelectSeq(markdownFiles, LAMBDA file : includes(project, file.path))
    ELSE call.files

\* Those of them the host's lookup returns metadata for
CachedFiles ==
    SelectSeq(RequestedFiles, LAMBDA file : getFileCache(metadataCache, file).cached)

\* The front matter the host holds for the document of a record
FrontMatterOf(record) ==
    LET entry == metadataCache[record.id]
    IN  IF entry.hasFrontMatter THEN entry.frontmatter ELSE EmptyFrontMatter

\* A value the metadata holds and that is empty: null, "" or []
PresentAndEmpty(v) == v.k # "undefined" /\ ~notEmpty(v)

\* C2: a query over a non-empty record set returns exactly one field with
\* identifier = true, it is named "path", and every field named "path" or
\* "name" has derived = true.
C2_IdentifierAndDerived ==
    (Returned /\ Len(frame.records) > 0) =>
       /\ Cardinality({i \in DOMAIN frame.fields : frame.fields[i].identifier}) = 1
       /\ \A i \in DOMAIN frame.fields :
             /\ frame.fields[i].identifier => frame.fields[i].name = "path"
             /\ frame.fields[i].name \in {"path", "name"} => frame.fields[i].derived

C2_Witness ==
    /\ Returned
    /\ Len(frame.records) > 1
    /\ \E i \in DOMAIN frame.records :
          FrontMatterOf(frame.records[i])["path"] = Str(sTodo)
    /\ \E i \in DOMAIN frame.fields :
          frame.fields[i].name = "path" /\ frame.fields[i].identifier

\* C3 as the specification states it: no key whose metadata value is empty
\* is a key of the record.
C3_NoEmptyKey ==
    Returned =>
       \A i \in DOMAIN frame.records : \A key \in MetaKeys :
          PresentAndEmpty(FrontMatterOf(frame.records[i])[key]) =>
             key \notin DOMAIN frame.records[i].values

\* C3, amended: no key other than "path" and "name" whose metadata value is
\* empty is a key of the record; "path" and "name" are keys of every record.
C3_NoEmptyUserKey ==
    Returned =>
       \A i \in DOMAIN frame.records :
          /\ \A key \in MetaKeys \ {"path", "name"} :
                ~notEmpty(FrontMatterOf(frame.records[i])[key]) =>
                   key \notin DOMAIN frame.records[i].values
          /\ {"path", "name"} \subseteq DOMAIN frame.records[i].values

C3_Witness ==
    /\ Returned
    /\ \E i \in DOMAIN frame.records :
          /\ FrontMatterOf(frame.records[i])["status"] \in {Null, Str(<<>>), List(<<>>)}
          /\ FrontMatterOf(frame.records[i])["name"] = Str(<<>>)
          /\ "status" \notin DOMAIN frame.records[i].values
          /\ "name" \in DOMAIN frame.records[i].values

RecordsOf(file) ==
    {i \in DOMAIN frame.records : frame.records[i].id = file.path}

FileSet(files) == {files[i] : i \in DOMAIN files}

\* C5 as the specification states it: every document of the query the host
\* has no metadata for (no cache entry, or one without front matter) has a
\* record in the result, holding "path" and "name" only.
C5_MinimalRecordAlways ==
    Returned =>
       \A file \in FileSet(RequestedFiles) :
          ~getFileCache(metadataCache, file).hasFrontMatter =>
             /\ RecordsOf(file) # {}
             /\ \A i \in RecordsOf(file) :
                   DOMAIN frame.records[i].values = {"path", "name"}

\* C5, amended: a document whose cache entry has no front matter has a
\* record holding "path" and "name" only; a document the host's lookup
\* returns no cache entry for has no record; the query returns either way.
C5_MinimalRecordWhenCached ==
    Returned =>
       \A file \in FileSet(RequestedFiles) :
          LET entry == getFileCache(metadataCache, file)
          IN  /\ (entry.cached /\ ~entry.hasFrontMatter) =>
                    /\ RecordsOf(file) # {}
                    /\ \A i \in RecordsOf(file) :
                          DOMAIN frame.records[i].values = {"path", "name"}
              /\ ~entry.cached => RecordsOf(file) = {}

C5_Witness ==
    /\ Returned
    /\ \E file \in FileSet(RequestedFiles) :
          /\ ~getFileCache(metadataCache, file).cached
          /\ RecordsOf(file) = {}
    /\ \E file \in FileSet(RequestedFiles) :
          /\ getFileCache(metadataCache, file) = NoFrontMatter
          /\ RecordsOf(file) # {}

\* The records of the query before the string fallback
ExtractedRecords == parseRecords(RequestedFiles, metadataCache)

\* C6: under every field whose detected type is String a record holds no
\* value or a string; the values under the other fields are the extracted
\* ones; a record has a value under a key only if it had one before the
\* fallback.
C6_StringFieldsHoldStrings ==
    Returned =>
       /\ Len(frame.records) = Len(ExtractedRecords)
       /\ \A i \in DOMAIN frame.records :
             /\ DOMAIN frame.records[i].values = DOMAIN ExtractedRecords[i].values
             /\ \A j \in DOMAIN frame.fields :
                   LET name == frame.fields[j].name
                   IN  name \in DOMAIN frame.records[i].values =>
                          IF frame.fields[j].type = String
                          THEN frame.records[i].values[name].k = "string"
                          ELSE frame.records[i].values[name] =
                                  ExtractedRecords[i].values[name]

C6_Witness ==
    /\ Returned
    /\ \E i \in DOMAIN frame.records, j \in DOMAIN frame.fields :
          /\ frame.fields[j].name = "status"
          /\ frame.fields[j].type = String
          /\ "status" \in DOMAIN frame.records[i].values
          /\ ExtractedRecords[i].values["status"].k = "number"
          /\ frame.records[i].values["status"] = Str(sThree)
    /\ \E i \in DOMAIN frame.records : "status" \notin DOMAIN frame.records[i].values

\* C7: the DataFrame of a query is the pipeline's result over the host's
\* documents and metadata as they are at the call, with a key in a record
\* exactly when the metadata holds a non-empty value under it; and no query
\* changes the host's documents or metadata or the project.
C7_NoCaching ==
    /\ [](Returned =>
             /\ frame = queryFiles(RequestedFiles, metadataCache)
             /\ Len(frame.records) = Len(CachedFiles)
             /\ \A i \in DOMAIN frame.records :
                   /\ frame.records[i].id = CachedFiles[i].path
                   /\ \A key \in MetaKeys \ {"path", "name", "position"} :
                         key \in DOMAIN frame.records[i].values
                            <=> notEmpty(FrontMatterOf(frame.records[i])[key]))
    /\ [][(call.op = "none" /\ call'.op # "none") =>
             UNCHANGED <<project, markdownFiles, metadataCache>>]_vars

C7_Witness ==
    /\ Returned
    /\ changes = MaxChanges
    /\ metadataCache \notin InitialCaches
    /\ \E i \in DOMAIN frame.records :
          /\ FrontMatterOf(frame.records[i])["status"] = Str(sTodo)
          /\ FrontMatterOf(frame.records[i])["position"] = Obj(sPos)
          /\ frame.records[i].values["status"] = Str(sTodo)

\* C8: queryAll's records belong to host documents the selector includes,
\* a document it excludes has no record, a document has at most one record,
\* and the DataFrame is queryFiles' over the included documents; queryOne's
\* DataFrame is queryFiles' over the one document.
C8_QueryAllOverSelection ==
    /\ (Returned /\ call.op = "queryAll") =>
          /\ \A i \in DOMAIN frame.records :
                \E file \in FileSet(markdownFiles) :
                   /\ file.path = frame.records[i].id
                   /\ includes(project, file.path)
          /\ \A file \in FileSet(markdownFiles) :
                /\ ~includes(project, file.path) => RecordsOf(file) = {}
                /\ Cardinality(RecordsOf(file)) <= 1
          /\ frame = queryFiles(SelectSeq(markdownFiles,
                                          LAMBDA file : includes(project, file.path)),
                                metadataCache)
    /\ (Returned /\ call.op = "queryOne") =>
          /\ Len(call.files) = 1
          /\ frame = queryFiles(<<call.files[1]>>, metadataCache)

C8_Witness ==
    /\ Returned
    /\ call.op = "queryAll"
    /\ Len(frame.records) > 0
    /\ \E file \in FileSet(markdownFiles) :
          /\ ~includes(project, file.path)
          /\ getFileCache(metadataCache, file).cached
          /\ RecordsOf(file) = {}

\* C9: the records are in the order of their documents in the list the
\* query ran over, also where the string fallback rewrote a record.
C9_RecordsInDocumentOrder ==
    Returned =>
       /\ Len(frame.records) = Len(CachedFiles)
       /\ \A i \in DOMAIN frame.records : frame.records[i].id = CachedFiles[i].path

C9_Witness ==
    /\ Returned
    /\ call = [op |-> "queryFiles", files |-> <<FileC, FileB, FileA>>]
    /\ Len(frame.records) = Len(call.files)
    /\ frame.records # ExtractedRecords

====
